---- MODULE Spec2Model ----
(***************************************************************************)
(* The bidding core of ImranAutoHub: the Express handlers                  *)
(*   POST /api/vehicles, POST /api/bids, POST /api/bookings                *)
(* over the MongoDB collections Vehicle, Bid and Booking, behind the       *)
(* authenticateToken middleware; and the password reset routes over the    *)
(* User and ResetToken collections.                                        *)
(*                                                                         *)
(* Every "await" of a handler is one data-store operation.  A step of the  *)
(* model is that operation together with the synchronous code that follows *)
(* it up to the next await, so requests interleave exactly where Node.js   *)
(* lets them interleave.  A data-store operation may also throw, which     *)
(* sends the handler to its catch block (500).                             *)
(*                                                                         *)
(* Every query and write of the two bidding handlers is keyed by one       *)
(* vehicleId, so the model follows one listing: the first vehicle posted.  *)
(***************************************************************************)
EXTENDS Integers, Sequences, FiniteSets, Bags, TLC

\* ---- bounds ------------------------------------------------------------
MaxAmount == 3
NumUsers == 2
\* Bid and Booking documents stored plus requests being served (each of which
\* may still insert one)
MaxDocs == 3

\* calls of crypto.randomBytes, i.e. reset tokens ever generated
MaxTokens == 2
\* password-reset requests being served at once
MaxResetReqs == 2
\* user.save() calls of the reset handler in one run
MaxPwChanges == 3

Users == 1..NumUsers
\* 0 stands for a price field that is missing from the form (falsy); the
\* prices leave room for two bids above them
PriceInputs == 0..(MaxAmount - 2)
\* 0 stands for a field that is missing from the request body (falsy),
\* 1 is the _id of the listing, 2 an _id that no vehicle has
VehicleIdInputs == {0, 1, 2}
\* 0 is the amount 0 as well as a missing amount: both are falsy
AmountInputs == 0..MaxAmount
\* 0 stands for a missing email, u in Users is the email of the account u,
\* NumUsers + 1 an email that no account has
EmailInputs == 0..(NumUsers + 1)
\* 0 stands for a missing token; the others are raw token strings, generated
\* already or not
RawTokenInputs == 0..MaxTokens
\* 0 stands for a missing password, 1 for one shorter than 8 characters,
\* 2 is the password the accounts were registered with, 3 another one
NewPasswordInputs == 0..3
\* what the Authorization header of a request can carry
BearerInputs == {"missing", "invalid", "expired", "valid"}

\* ---- state -------------------------------------------------------------
VARIABLES
  vehicles,   \* the Vehicle collection; _id = position
  bids,       \* the Bid collection; _id = position = insertion (createdAt) order
  bookings,   \* the Booking collection; _id = position
  reqs,       \* the requests being served: a bag of handler activations
  res,        \* the response sent by the latest step, if it sent one
  capacity,   \* how many documents and requests the run may hold at once
  passwords,  \* the User collection: _id -> the stored password hash
  resetTokens,\* the ResetToken collection: a set of documents
  issued,     \* how many times crypto.randomBytes has been called
  pwChanges,  \* the raw tokens that user.save() calls were made under (a bag)
  emitted,    \* the event io.emit sent in the latest step, if it sent one
  userEmails, \* the User collection, each document by its email; _id = position
  catalog,    \* the Vehicle collection by the fields GET /api/vehicles filters on
  currentVehicleId, \* the browser script's variable of that name; 0 is null
  modal,      \* #vehicleModal: whether it is displayed and what #modalContent holds
  bidListOf,  \* the vehicle whose bids #bidList holds; 0 while it holds the spinner
  fetches,    \* the fetch calls of the browser script that await their response
  serverRun,     \* the socket server: its store and its latest answer
  serverlessRun  \* the serverless API: its store and its latest answer

client == <<currentVehicleId, modal, bidListOf, fetches>>
variants == <<serverRun, serverlessRun>>

vars == <<vehicles, bids, bookings, reqs, res,
          capacity, passwords, resetTokens, issued, pwChanges, emitted,
          userEmails, catalog, client, variants>>
db == <<vehicles, bids, bookings>>
\* the User and ResetToken collections, which the bidding handlers never touch
accounts == <<passwords, resetTokens, issued, pwChanges>>
\* what neither the bidding handlers nor the reset handlers touch
others == <<userEmails, catalog, client, variants>>

\* null result of findById / findOne
NoDoc == [id |-> 0]

\* a handler activation: the request, the handler's position and its locals;
\* nPending and dup record facts about the store at the time of the call
NewReq(kind, vid, uid, amt) ==
  [kind |-> kind, vehicleId |-> vid, userId |-> uid, amount |-> amt,
   pc |-> "start", vehicle |-> NoDoc, highestBid |-> NoDoc, bookingId |-> 0,
   nPending |-> 0, dup |-> FALSE]

NoResponse == [kind |-> "none", status |-> 0, message |-> ""]

\* res.status(st).json({ message: msg }) of the handler activation r
Response(r, st, msg) == [kind |-> r.kind, status |-> st, message |-> msg]

\* ---- events ------------------------------------------------------------
NoEvent == [event |-> "none", vehicleId |-> 0, amount |-> 0, bookingId |-> 0]

\* io.emit('newVehicle', vehicle)
NewVehicleEvent(vid) ==
  [event |-> "newVehicle", vehicleId |-> vid, amount |-> 0, bookingId |-> 0]

\* io.emit('newBid', { vehicleId, amount: parseFloat(amount) })
NewBidEvent(r) ==
  [event |-> "newBid", vehicleId |-> r.vehicleId, amount |-> r.amount,
   bookingId |-> 0]

\* io.emit('bookingConfirmed', { vehicleId, bookingId: booking._id })
BookingConfirmedEvent(r) ==
  [event |-> "bookingConfirmed", vehicleId |-> r.vehicleId, amount |-> 0,
   bookingId |-> r.bookingId]

\* ---- queries -----------------------------------------------------------
\* Vehicle.findById(vehicleId): the stored document or null
FindVehicleById(vid) ==
  IF vid \in DOMAIN vehicles
    THEN [id |-> vid, sellerId |-> vehicles[vid].sellerId,
          price |-> vehicles[vid].price, status |-> vehicles[vid].status]
    ELSE NoDoc

\* a plausible slip: the status filter left out
PendingBidsOf_AnyStatus(vid) ==
  {i \in DOMAIN bids : bids[i].vehicleId = vid}

\* the filter { vehicleId, status: 'pending' }
PendingBidsOf(vid) ==
  {i \in DOMAIN bids : bids[i].vehicleId = vid /\ bids[i].status = "pending"}

\* Bid.findOne({ vehicleId, status: 'pending' }).sort({ amount: -1 }):
\* the candidates for the first document of the sort.  The order among
\* equal amounts is not defined by the sort key, so every bid with the
\* maximum amount is a possible result.
HighestPendingBids(vid) ==
  {i \in PendingBidsOf(vid) :
     \A j \in PendingBidsOf(vid) : bids[j].amount <= bids[i].amount}

BidDoc(i) ==
  [id |-> i, userId |-> bids[i].userId, amount |-> bids[i].amount]

\* the possible results of the findOne: a highest pending bid, or null
FindHighestBid(vid) ==
  IF HighestPendingBids(vid) = {}
    THEN {NoDoc}
    ELSE {BidDoc(i) : i \in HighestPendingBids(vid)}

\* ---- the checks of POST /api/bids -----------------------------------------
FieldsMissing(vid, amt) == vid = 0 \/ amt = 0

VehicleNotAvailable(v) == v.status # "available"

\* a plausible slip: the vehicle's own _id compared instead of its sellerId
IsOwnVehicle_WrongField(v, uid) == v.id = uid

IsOwnVehicle(v, uid) == v.sellerId = uid

NotAbovePrice(amt, v) == amt <= v.price

NotAboveHighest(amt, hb) == hb.id # 0 /\ amt <= hb.amount

\* ---- the checks of POST /api/bookings -----------------------------------
\* a plausible slip: === where !== is meant
NotSeller_Inverted(v, uid) == v.sellerId = uid

NotSeller(v, uid) == v.sellerId # uid

NoHighestBid(hb) == hb.id = 0

\* ---- writes -------------------------------------------------------------
NewBid(vid, uid, amt) ==
  [vehicleId |-> vid, userId |-> uid, amount |-> amt, status |-> "pending"]

NewBooking(vid, v, hb) ==
  [vehicleId |-> vid, buyerId |-> hb.userId, sellerId |-> v.sellerId,
   bidId |-> hb.id, finalPrice |-> hb.amount, status |-> "confirmed"]

\* Bid.updateMany({ vehicleId, _id: { $ne: highestBid._id }, status: 'pending' },
\*                { status: 'rejected' })
RejectOthers(bs, vid, bidId) ==
  [i \in DOMAIN bs |->
     IF bs[i].vehicleId = vid /\ i # bidId /\ bs[i].status = "pending"
       THEN [bs[i] EXCEPT !.status = "rejected"]
       ELSE bs[i]]

\* ---- the requests being served -------------------------------------------
Serving == BagToSet(reqs)

\* The response written by the previous step has left the server.  No handler
\* reads res, so letting it leave before the next handler step loses no
\* behaviour of the store.
Ready == res = NoResponse

\* a new request is taken
CanAccept ==
  /\ Ready
  /\ Len(bids) + Len(bookings) + BagCardinality(reqs) < capacity

\* the handler activation r moves on to r2 without answering
Continue(r, r2) ==
  /\ reqs' = (reqs (-) SetToBag({r})) (+) SetToBag({r2})
  /\ res' = NoResponse

\* a request is answered before its handler ever waits
Answer(r, st, msg) ==
  /\ reqs' = reqs
  /\ res' = Response(r, st, msg)

\* the handler activation r waits for its next data-store operation
Start(r) ==
  /\ reqs' = reqs (+) SetToBag({r})
  /\ res' = NoResponse

\* the handler activation r answers and returns
Finish(r, st, msg) ==
  /\ reqs' = reqs (-) SetToBag({r})
  /\ res' = Response(r, st, msg)

\* ---- hashes --------------------------------------------------------------
\* crypto.createHash('sha256').update(token).digest('hex'): one-way and, for
\* the tokens of a run, free of collisions
Sha256(token) == [sha256 |-> token]

\* bcrypt.hash(password, 10), up to the salt
BcryptHash(password) == [bcrypt |-> password]

\* the collections as they are once the accounts are registered: no listing,
\* no bid, no booking, no reset token, nothing being served
InitStore ==
  /\ vehicles = <<>>
  /\ bids = <<>>
  /\ bookings = <<>>
  /\ reqs = EmptyBag
  /\ res = NoResponse
  /\ passwords = [u \in Users |-> BcryptHash(2)]
  /\ resetTokens = {}
  /\ issued = 0
  /\ pwChanges = EmptyBag
  /\ emitted = NoEvent
  /\ userEmails = <<>>
  /\ catalog = <<>>
  /\ currentVehicleId = 0
  /\ modal = [shown |-> FALSE, vehicleId |-> 0, hasBidList |-> FALSE]
  /\ bidListOf = 0
  /\ fetches = EmptyBag
  /\ serverRun = [vehicles |-> <<>>, bids |-> <<>>, bookings |-> <<>>,
                  kind |-> "none", status |-> 0, listed |-> <<>>,
                  event |-> NoEvent]
  /\ serverlessRun = serverRun

Init ==
  /\ InitStore
  /\ capacity = MaxDocs

\* the same server with room for one more document or request
InitWide ==
  /\ InitStore
  /\ capacity = MaxDocs + 1

\* ---- authenticateToken ----------------------------------------------------
\* jwt.verify fails on a token that is malformed, wrongly signed or expired
JwtVerifyFails(tok) == tok \in {"invalid", "expired"}

\* The middleware in front of POST /api/bids and POST /api/bookings answers
\* by itself unless the token verifies; next() is never called, so the
\* handler does not run.  With a valid token the handler runs with the
\* identity of the token: the uid of the handler actions below.
AuthenticateTokenRejects(kind, tok) ==
  /\ CanAccept
  /\ \/ /\ tok = "missing"
        /\ res' = [kind |-> kind, status |-> 401,
                   message |-> "Access token required"]
     \/ /\ tok # "missing" /\ JwtVerifyFails(tok)
        /\ res' = [kind |-> kind, status |-> 403,
                   message |-> "Invalid or expired token"]
  /\ reqs' = reqs
  /\ UNCHANGED db
  /\ emitted' = NoEvent
  /\ UNCHANGED <<capacity, accounts, others>>

\* ---- POST /api/vehicles -------------------------------------------------
PostVehicle(uid, price) ==
  /\ Ready
  /\ vehicles = <<>>
  /\ IF price = 0
       THEN /\ res' = [kind |-> "postVehicle", status |-> 400,
                       message |-> "All required fields must be filled"]
            /\ emitted' = NoEvent
            /\ UNCHANGED vehicles
       ELSE /\ vehicles' = Append(vehicles,
                 [sellerId |-> uid, price |-> price, status |-> "available"])
            /\ emitted' = NewVehicleEvent(Len(vehicles) + 1)
            /\ res' = [kind |-> "postVehicle", status |-> 201,
                       message |-> "Vehicle posted successfully"]
  /\ UNCHANGED <<bids, bookings, reqs>>
  /\ UNCHANGED <<capacity, accounts, others>>

\* ---- POST /api/bids -----------------------------------------------------
\* The request arrives and runs up to the result of its first await.  Nothing
\* of a request is visible to the others before its first read, so arrival
\* and first read are one step.
PlaceBidFindVehicle(vid, uid, amt) ==
  /\ CanAccept
  /\ LET v == FindVehicleById(vid)
         r == [NewReq("placeBid", vid, uid, amt) EXCEPT
                 !.vehicle = v, !.pc = "findHighest",
                 !.dup = \E i \in DOMAIN bids : bids[i] = NewBid(vid, uid, amt)]
     IN IF FieldsMissing(vid, amt)
          THEN Answer(r, 400, "Vehicle ID and amount required")
        ELSE IF v.id = 0 THEN Answer(r, 404, "Vehicle not found")
        ELSE IF VehicleNotAvailable(v)
          THEN Answer(r, 400, "Vehicle is no longer available")
        ELSE IF IsOwnVehicle(v, uid)
          THEN Answer(r, 400, "You cannot bid on your own vehicle")
        ELSE IF NotAbovePrice(amt, v)
          THEN Answer(r, 400, "Bid must be higher than current price")
        ELSE Start(r)
  /\ UNCHANGED db
  /\ emitted' = NoEvent
  /\ UNCHANGED <<capacity, accounts, others>>

PlaceBidFindHighest(r) ==
  /\ Ready
  /\ r.kind = "placeBid" /\ r.pc = "findHighest"
  /\ \E hb \in FindHighestBid(r.vehicleId) :
       IF NotAboveHighest(r.amount, hb)
         THEN Finish(r, 400, "Bid must be higher than current highest bid")
         ELSE Continue(r, [r EXCEPT !.pc = "save"])
  /\ UNCHANGED db
  /\ emitted' = NoEvent
  /\ UNCHANGED <<capacity, accounts, others>>

PlaceBidSave(r) ==
  /\ Ready
  /\ r.kind = "placeBid" /\ r.pc = "save"
  /\ bids' = Append(bids, NewBid(r.vehicleId, r.userId, r.amount))
  /\ Finish(r, 201, "Bid placed successfully")
  /\ UNCHANGED <<vehicles, bookings>>
  /\ emitted' = NewBidEvent(r)
  /\ UNCHANGED <<capacity, accounts, others>>

\* ---- POST /api/bookings ---------------------------------------------------
ConfirmBookingFindVehicle(vid, uid) ==
  /\ CanAccept
  /\ LET v == FindVehicleById(vid)
         r == [NewReq("confirmBooking", vid, uid, 0) EXCEPT
                 !.vehicle = v, !.pc = "findHighest",
                 !.nPending = Cardinality(PendingBidsOf(vid))]
     IN IF v.id = 0 THEN Answer(r, 404, "Vehicle not found")
        ELSE IF VehicleNotAvailable(v)
          THEN Answer(r, 400, "Vehicle already booked")
        ELSE IF NotSeller(v, uid)
          THEN Answer(r, 403, "Only seller can confirm booking")
        ELSE Start(r)
  /\ UNCHANGED db
  /\ emitted' = NoEvent
  /\ UNCHANGED <<capacity, accounts, others>>

ConfirmBookingFindHighest(r) ==
  /\ Ready
  /\ r.kind = "confirmBooking" /\ r.pc = "findHighest"
  /\ \E hb \in FindHighestBid(r.vehicleId) :
       IF NoHighestBid(hb)
         THEN Finish(r, 400, "No bids available")
         ELSE Continue(r, [r EXCEPT !.highestBid = hb, !.pc = "saveBooking"])
  /\ UNCHANGED db
  /\ emitted' = NoEvent
  /\ UNCHANGED <<capacity, accounts, others>>

ConfirmBookingSaveBooking(r) ==
  /\ Ready
  /\ r.kind = "confirmBooking" /\ r.pc = "saveBooking"
  /\ bookings' = Append(bookings, NewBooking(r.vehicleId, r.vehicle, r.highestBid))
  /\ Continue(r, [r EXCEPT !.bookingId = Len(bookings) + 1,
                             !.pc = "saveVehicle"])
  /\ UNCHANGED <<vehicles, bids>>
  /\ emitted' = NoEvent
  /\ UNCHANGED <<capacity, accounts, others>>

\* vehicle.status = 'sold'; await vehicle.save()
ConfirmBookingSaveVehicle(r) ==
  /\ Ready
  /\ r.kind = "confirmBooking" /\ r.pc = "saveVehicle"
  /\ vehicles' = [vehicles EXCEPT ![r.vehicleId].status = "sold"]
  /\ Continue(r, [r EXCEPT !.vehicle.status = "sold", !.pc = "saveBid"])
  /\ UNCHANGED <<bids, bookings>>
  /\ emitted' = NoEvent
  /\ UNCHANGED <<capacity, accounts, others>>

\* highestBid.status = 'accepted'; await highestBid.save()
ConfirmBookingSaveBid(r) ==
  /\ Ready
  /\ r.kind = "confirmBooking" /\ r.pc = "saveBid"
  /\ bids' = [bids EXCEPT ![r.highestBid.id].status = "accepted"]
  /\ Continue(r, [r EXCEPT !.pc = "updateMany"])
  /\ UNCHANGED <<vehicles, bookings>>
  /\ emitted' = NoEvent
  /\ UNCHANGED <<capacity, accounts, others>>

ConfirmBookingUpdateMany(r) ==
  /\ Ready
  /\ r.kind = "confirmBooking" /\ r.pc = "updateMany"
  /\ bids' = RejectOthers(bids, r.vehicleId, r.highestBid.id)
  /\ Finish(r, 201, "Booking confirmed")
  /\ UNCHANGED <<vehicles, bookings>>
  /\ emitted' = BookingConfirmedEvent(r)
  /\ UNCHANGED <<capacity, accounts, others>>

\* ---- catch (error) { res.status(500) } ------------------------------------
\* the first read of a request throws: whatever the request, the answer is 500
\* ---- GET /api/vehicles/:id/bids ------------------------------------------
\* a plausible slip: .sort({ amount: 1 })
SortedByAmount_Ascending(S) ==
  {q \in [1..Cardinality(S) -> S] :
     /\ \A k, l \in DOMAIN q : k # l => q[k] # q[l]
     /\ \A k, l \in DOMAIN q : k < l => bids[q[k]].amount <= bids[q[l]].amount}

\* .sort({ amount: -1 }) of the bids S: the _ids in an order the sort can
\* return them in.  The sort key does not order bids of equal amount.
SortedByAmount(S) ==
  {q \in [1..Cardinality(S) -> S] :
     /\ \A k, l \in DOMAIN q : k # l => q[k] # q[l]
     /\ \A k, l \in DOMAIN q : k < l => bids[q[k]].amount >= bids[q[l]].amount}

\* res.json(bids)
BidsResponse(vid, q) ==
  [kind |-> "listBids", status |-> 200, message |-> "",
   vehicleId |-> vid, bids |-> q]

\* The handler has one await, the find, and needs no token.
ListBids(vid) ==
  /\ Ready
  /\ \E q \in SortedByAmount(PendingBidsOf(vid)) : res' = BidsResponse(vid, q)
  /\ UNCHANGED <<db, reqs>>
  /\ emitted' = NoEvent
  /\ UNCHANGED <<capacity, accounts, others>>

\* the find rejects: catch (error) { res.status(500) }
ListBidsFailure(vid) ==
  /\ Ready
  /\ res' = [kind |-> "listBids", status |-> 500, message |-> "Server error"]
  /\ UNCHANGED <<db, reqs>>
  /\ emitted' = NoEvent
  /\ UNCHANGED <<capacity, accounts, others>>

FindVehicleFailure(kind) ==
  /\ CanAccept
  /\ reqs' = reqs
  /\ res' = [kind |-> kind, status |-> 500, message |-> "Server error"]
  /\ UNCHANGED db
  /\ emitted' = NoEvent
  /\ UNCHANGED <<capacity, accounts, others>>

\* the data-store operation the handler activation r is waiting for throws
DbFailure(r) ==
  /\ Ready
  /\ Finish(r, 500, "Server error")
  /\ UNCHANGED db
  /\ emitted' = NoEvent
  /\ UNCHANGED <<capacity, accounts, others>>

\* the response written by the latest step leaves the server
ResponseSent ==
  /\ res # NoResponse
  /\ res' = NoResponse
  /\ UNCHANGED <<db, reqs>>
  /\ emitted' = NoEvent
  /\ UNCHANGED <<capacity, accounts, others>>

Next ==
  \/ \E uid \in Users, price \in PriceInputs : PostVehicle(uid, price)
  \/ \E vid \in VehicleIdInputs, uid \in Users, amt \in AmountInputs :
       PlaceBidFindVehicle(vid, uid, amt)
  \/ \E r \in Serving : PlaceBidFindHighest(r)
  \/ \E r \in Serving : PlaceBidSave(r)
  \/ \E vid \in VehicleIdInputs, uid \in Users : ConfirmBookingFindVehicle(vid, uid)
  \/ \E r \in Serving : ConfirmBookingFindHighest(r)
  \/ \E r \in Serving : ConfirmBookingSaveBooking(r)
  \/ \E r \in Serving : ConfirmBookingSaveVehicle(r)
  \/ \E r \in Serving : ConfirmBookingSaveBid(r)
  \/ \E r \in Serving : ConfirmBookingUpdateMany(r)
  \/ \E k \in {"placeBid", "confirmBooking"}, tok \in BearerInputs :
       AuthenticateTokenRejects(k, tok)
  \/ \E k \in {"placeBid", "confirmBooking"} : FindVehicleFailure(k)
  \/ \E r \in Serving : DbFailure(r)
  \/ ResponseSent

Spec == Init /\ [][Next]_vars

\* ==== password reset ========================================================
\* POST /api/forgot-password, GET /api/verify-reset-token and
\* POST /api/reset-password work on the User and ResetToken collections only.
bidding == <<vehicles, bids, bookings, capacity>>

\* a handler activation of one of the three reset routes; token is the raw
\* token of the request or, for forgot-password, the one it has generated
NewResetReq(kind, email, token, pw) ==
  [kind |-> kind, email |-> email, token |-> token, newPassword |-> pw,
   pc |-> "start", user |-> 0]

\* res.status(st).json({ message: msg, ..., token: tok }); tok = 0 when the
\* body has no token (and no resetUrl, which embeds the token)
ResetResponse(kind, st, msg, tok) ==
  [kind |-> kind, status |-> st, message |-> msg, token |-> tok]

\* User.findOne({ email }): the _id of the account, 0 for null
FindUserByEmail(email) == IF email \in Users THEN email ELSE 0

ResetTokenDoc(uid, token) == [userId |-> uid, token |-> Sha256(token)]

\* ResetToken.findOne({ userId, token: hashedToken }) finds a document
TokenFound(uid, token) == ResetTokenDoc(uid, token) \in resetTokens

CanAcceptReset ==
  /\ Ready
  /\ BagCardinality(reqs) < MaxResetReqs

GenericAcknowledgement ==
  "If an account exists with this email, a reset link has been sent."

\* ---- POST /api/forgot-password ---------------------------------------------
ForgotPasswordFindUser(email) ==
  /\ CanAcceptReset
  /\ LET user == FindUserByEmail(email)
     IN IF email = 0
          THEN /\ res' = ResetResponse("forgotPassword", 400, "Email is required", 0)
               /\ UNCHANGED <<reqs, issued>>
        ELSE IF user = 0
          THEN /\ res' = ResetResponse("forgotPassword", 200, GenericAcknowledgement, 0)
               /\ UNCHANGED <<reqs, issued>>
        ELSE /\ issued < MaxTokens
             /\ issued' = issued + 1
             /\ Start([NewResetReq("forgotPassword", email, issued + 1, 0) EXCEPT
                         !.user = user, !.pc = "deleteMany"])
  /\ UNCHANGED <<passwords, resetTokens, pwChanges, bidding, emitted, others>>

\* ResetToken.deleteMany({ userId: user._id })
ForgotPasswordDeleteMany(r) ==
  /\ Ready
  /\ r.kind = "forgotPassword" /\ r.pc = "deleteMany"
  /\ resetTokens' = {d \in resetTokens : d.userId # r.user}
  /\ Continue(r, [r EXCEPT !.pc = "create"])
  /\ UNCHANGED <<passwords, issued, pwChanges, bidding, emitted, others>>

\* ResetToken.create({ userId: user._id, token: hashedToken })
ForgotPasswordCreate(r) ==
  /\ Ready
  /\ r.kind = "forgotPassword" /\ r.pc = "create"
  /\ resetTokens' = resetTokens \cup {ResetTokenDoc(r.user, r.token)}
  /\ Continue(r, [r EXCEPT !.pc = "sendMail"])
  /\ UNCHANGED <<passwords, issued, pwChanges, bidding, emitted, others>>

\* transporter.sendMail resolves; the answer carries resetUrl and token
ForgotPasswordSendMail(r) ==
  /\ Ready
  /\ r.kind = "forgotPassword" /\ r.pc = "sendMail"
  /\ reqs' = reqs (-) SetToBag({r})
  /\ res' = ResetResponse(r.kind, 200, GenericAcknowledgement, r.token)
  /\ UNCHANGED <<accounts, bidding, emitted, others>>

\* ---- GET /api/verify-reset-token -------------------------------------------
VerifyResetTokenFindUser(token, email) ==
  /\ CanAcceptReset
  /\ LET user == FindUserByEmail(email)
     IN IF token = 0 \/ email = 0
          THEN /\ res' = ResetResponse("verifyResetToken", 400,
                                       "Token and email are required", 0)
               /\ reqs' = reqs
        ELSE IF user = 0
          THEN /\ res' = ResetResponse("verifyResetToken", 400, "Invalid reset link", 0)
               /\ reqs' = reqs
        ELSE Start([NewResetReq("verifyResetToken", email, token, 0) EXCEPT
                      !.user = user, !.pc = "findToken"])
  /\ UNCHANGED <<accounts, bidding, emitted, others>>

VerifyResetTokenFindToken(r) ==
  /\ Ready
  /\ r.kind = "verifyResetToken" /\ r.pc = "findToken"
  /\ reqs' = reqs (-) SetToBag({r})
  /\ res' = IF TokenFound(r.user, r.token)
              THEN ResetResponse(r.kind, 200, "Token is valid", 0)
              ELSE ResetResponse(r.kind, 400, "Invalid or expired reset link", 0)
  /\ UNCHANGED <<accounts, bidding, emitted, others>>

\* ---- POST /api/reset-password ----------------------------------------------
ResetPasswordFindUser(token, email, pw) ==
  /\ CanAcceptReset
  /\ LET user == FindUserByEmail(email)
     IN IF token = 0 \/ email = 0 \/ pw = 0
          THEN /\ res' = ResetResponse("resetPassword", 400,
                                       "All fields are required", 0)
               /\ reqs' = reqs
        ELSE IF pw = 1
          THEN /\ res' = ResetResponse("resetPassword", 400,
                                       "Password must be at least 8 characters", 0)
               /\ reqs' = reqs
        ELSE IF user = 0
          THEN /\ res' = ResetResponse("resetPassword", 400, "Invalid reset link", 0)
               /\ reqs' = reqs
        ELSE Start([NewResetReq("resetPassword", email, token, pw) EXCEPT
                      !.user = user, !.pc = "findToken"])
  /\ UNCHANGED <<accounts, bidding, emitted, others>>

ResetPasswordFindToken(r) ==
  /\ Ready
  /\ r.kind = "resetPassword" /\ r.pc = "findToken"
  /\ IF TokenFound(r.user, r.token)
       THEN Continue(r, [r EXCEPT !.pc = "saveUser"])
       ELSE /\ reqs' = reqs (-) SetToBag({r})
            /\ res' = ResetResponse(r.kind, 400, "Invalid or expired reset link", 0)
  /\ UNCHANGED <<accounts, bidding, emitted, others>>

\* bcrypt.hash resolves (it reads nothing of the store); user.password is set
\* and user.save() runs
ResetPasswordSaveUser(r) ==
  /\ Ready
  /\ r.kind = "resetPassword" /\ r.pc = "saveUser"
  /\ BagCardinality(pwChanges) < MaxPwChanges
  /\ passwords' = [passwords EXCEPT ![r.user] = BcryptHash(r.newPassword)]
  /\ pwChanges' = pwChanges (+) SetToBag({r.token})
  /\ Continue(r, [r EXCEPT !.pc = "deleteOne"])
  /\ UNCHANGED <<resetTokens, issued, bidding, emitted, others>>

\* ResetToken.deleteOne({ _id: resetToken._id })
ResetPasswordDeleteOne(r) ==
  /\ Ready
  /\ r.kind = "resetPassword" /\ r.pc = "deleteOne"
  /\ resetTokens' = resetTokens \ {ResetTokenDoc(r.user, r.token)}
  /\ Continue(r, [r EXCEPT !.pc = "sendMail"])
  /\ UNCHANGED <<passwords, issued, pwChanges, bidding, emitted, others>>

ResetPasswordSendMail(r) ==
  /\ Ready
  /\ r.kind = "resetPassword" /\ r.pc = "sendMail"
  /\ reqs' = reqs (-) SetToBag({r})
  /\ res' = ResetResponse(r.kind, 200,
       "Password reset successful! You can now login with your new password.", 0)
  /\ UNCHANGED <<accounts, bidding, emitted, others>>

\* ---- catch (error) { res.status(500) } of the three routes -----------------
ResetErrorMessage(kind) ==
  IF kind = "forgotPassword" THEN "Error sending reset email. Please try again."
  ELSE IF kind = "verifyResetToken" THEN "Error verifying token"
  ELSE "Error resetting password. Please try again."

\* the User.findOne of a request throws
FindUserFailure(kind) ==
  /\ CanAcceptReset
  /\ reqs' = reqs
  /\ res' = ResetResponse(kind, 500, ResetErrorMessage(kind), 0)
  /\ UNCHANGED <<accounts, bidding, emitted, others>>

\* the operation the handler activation r is waiting for (data store or mail
\* transport) throws
ResetFailure(r) ==
  /\ Ready
  /\ reqs' = reqs (-) SetToBag({r})
  /\ res' = ResetResponse(r.kind, 500, ResetErrorMessage(r.kind), 0)
  /\ UNCHANGED <<accounts, bidding, emitted, others>>

\* the TTL index (expires: 3600 on createdAt) removes a token document
TokenExpires(d) ==
  /\ Ready
  /\ d \in resetTokens
  /\ resetTokens' = resetTokens \ {d}
  /\ UNCHANGED <<passwords, issued, pwChanges, reqs, res, bidding, emitted, others>>

ResetNext ==
  \/ \E email \in EmailInputs : ForgotPasswordFindUser(email)
  \/ \E r \in Serving : ForgotPasswordDeleteMany(r)
  \/ \E r \in Serving : ForgotPasswordCreate(r)
  \/ \E r \in Serving : ForgotPasswordSendMail(r)
  \/ \E token \in RawTokenInputs, email \in EmailInputs :
       VerifyResetTokenFindUser(token, email)
  \/ \E r \in Serving : VerifyResetTokenFindToken(r)
  \/ \E token \in RawTokenInputs, email \in EmailInputs, pw \in NewPasswordInputs :
       ResetPasswordFindUser(token, email, pw)
  \/ \E r \in Serving : ResetPasswordFindToken(r)
  \/ \E r \in Serving : ResetPasswordSaveUser(r)
  \/ \E r \in Serving : ResetPasswordDeleteOne(r)
  \/ \E r \in Serving : ResetPasswordSendMail(r)
  \/ \E kind \in {"forgotPassword", "verifyResetToken", "resetPassword"} :
       FindUserFailure(kind)
  \/ \E r \in Serving : ResetFailure(r)
  \/ \E d \in resetTokens : TokenExpires(d)
  \/ ResponseSent

ResetSpec == Init /\ [][ResetNext]_vars

SpecWide == InitWide /\ [][Next]_vars

\* ==== properties ===========================================================
BidsIn(bs, vid, st) ==
  {i \in DOMAIN bs : bs[i].vehicleId = vid /\ bs[i].status = st}

BookingsOf(vid) == {i \in DOMAIN bookings : bookings[i].vehicleId = vid}

IsSold(vid) == vehicles[vid].status = "sold"

\* the handler activation r takes this step
Stepped(r) == r \in Serving /\ CopiesIn(r, reqs') < CopiesIn(r, reqs)

\* C1: confirmBooking is atomic: in every state another request can observe,
\* the four effects of a confirmBooking on a vehicle (Booking created, vehicle
\* sold, winning bid accepted, every other pending bid rejected) are all
\* present or all absent.
C1_ConfirmBookingAtomic ==
  \A vid \in DOMAIN vehicles :
    \/ /\ BookingsOf(vid) # {}
       /\ IsSold(vid)
       /\ BidsIn(bids, vid, "accepted") # {}
       /\ BidsIn(bids, vid, "pending") = {}
    \/ /\ BookingsOf(vid) = {}
       /\ ~IsSold(vid)
       /\ BidsIn(bids, vid, "accepted") = {}
       /\ BidsIn(bids, vid, "rejected") = {}

\* C2: for every vehicle, status = sold if and only if exactly one Booking
\* references it and exactly one of its bids is accepted.
C2_SoldIffOneBookingOneAccepted ==
  \A vid \in DOMAIN vehicles :
    IsSold(vid) <=> /\ Cardinality(BookingsOf(vid)) = 1
                    /\ Cardinality(BidsIn(bids, vid, "accepted")) = 1

\* C3: concurrent placeBid requests are serialized on read-highest / compare /
\* insert, so the amounts of the pending bids of a vehicle are strictly
\* increasing in insertion order.
C3_PendingBidsStrictlyIncreasing ==
  \A vid \in DOMAIN vehicles :
    \A i, j \in BidsIn(bids, vid, "pending") :
      i < j => bids[i].amount < bids[j].amount

\* C4: no Bid is ever inserted for a vehicle whose status is sold, also not by
\* a placeBid that read the vehicle before a concurrent confirmBooking
\* committed.
C4_NoBidInsertedWhenSold ==
  [][Len(bids') > Len(bids) => ~IsSold(bids'[Len(bids')].vehicleId)]_vars

\* C5: when confirmBooking is called by the seller on a vehicle with n >= 1
\* pending bids and succeeds, then exactly 1 bid of the vehicle is accepted,
\* n-1 are rejected and none is pending.
C5_OneAcceptedRestRejected ==
  [][\A r \in Serving :
       (/\ r.kind = "confirmBooking" /\ Stepped(r)
        /\ res'.status = 201 /\ r.nPending >= 1)
       => /\ Cardinality(BidsIn(bids', r.vehicleId, "accepted")) = 1
          /\ Cardinality(BidsIn(bids', r.vehicleId, "rejected")) = r.nPending - 1
          /\ BidsIn(bids', r.vehicleId, "pending") = {}]_vars

\* C6: at most one Booking is ever created per vehicle, also when two
\* confirmBooking requests for the same vehicle interleave.
C6_AtMostOneBookingPerVehicle ==
  \A vid \in DOMAIN vehicles : Cardinality(BookingsOf(vid)) <= 1

\* C7: a placeBid goes on to insert only if its amount is strictly greater
\* than the vehicle's price and than every pending bid it reads, and a
\* repetition of an identical call that succeeded is rejected.
C7_StrictFloorAndRepeatRejected ==
  [][\A r \in Serving :
       (r.kind = "placeBid" /\ Stepped(r))
       => /\ (r.pc = "findHighest" /\ res'.status = 0)
             => /\ r.amount > vehicles[r.vehicleId].price
                /\ \A i \in BidsIn(bids, r.vehicleId, "pending") :
                     r.amount > bids[i].amount
          /\ res'.status = 201 => ~r.dup]_vars

\* C8: no Bid exists whose userId is the sellerId of its vehicle.
C8_SellerHoldsNoBid ==
  \A i \in DOMAIN bids :
    /\ bids[i].vehicleId \in DOMAIN vehicles
    /\ bids[i].userId # vehicles[bids[i].vehicleId].sellerId

\* the seller's placeBid was turned away on a vehicle others have bid on
C8_Witness ==
  /\ res.kind = "placeBid" /\ res.status = 400
  /\ res.message = "You cannot bid on your own vehicle"
  /\ bids # <<>>

C10_NoBidsNoBooking ==
  /\ [][\A r \in BagToSet(reqs') :
          (/\ r.kind = "confirmBooking" /\ r.pc = "findHighest"
           /\ CopiesIn(r, reqs') > CopiesIn(r, reqs))
          => UNCHANGED db]_vars
  /\ [][\A r \in Serving :
          (/\ r.kind = "confirmBooking" /\ r.pc = "findHighest" /\ Stepped(r)
           /\ BidsIn(bids, r.vehicleId, "pending") = {})
          => /\ UNCHANGED db
             /\ \/ res'.status = 400 /\ res'.message = "No bids available"
                \/ res'.status = 500 /\ res'.message = "Server error"]_vars

\* the seller was answered "No bids available" and the vehicle is still listed
C10_Witness ==
  /\ res.kind = "confirmBooking" /\ res.status = 400
  /\ res.message = "No bids available"
  /\ \A vid \in DOMAIN vehicles : vehicles[vid].status = "available"
  /\ bids = <<>> /\ bookings = <<>>

\* C11: when a confirmBooking answers 201, its winner has the maximum amount
\* among the bids of the vehicle and is accepted, every other bid of the
\* vehicle is rejected, the vehicle is sold, and a Booking carries the
\* winner's id, bidder and amount and the vehicle's seller.
C11_WinnerIsMaximumBid ==
  [][\A r \in Serving :
       (r.kind = "confirmBooking" /\ Stepped(r) /\ res'.status = 201)
       => LET w == r.highestBid.id
              vid == r.vehicleId
          IN /\ bids'[w].status = "accepted"
             /\ \A i \in DOMAIN bids' :
                  (bids'[i].vehicleId = vid /\ i # w)
                  => /\ bids'[i].amount <= bids'[w].amount
                     /\ bids'[i].status = "rejected"
             /\ vehicles'[vid].status = "sold"
             /\ \E b \in DOMAIN bookings' :
                  /\ bookings'[b].vehicleId = vid
                  /\ bookings'[b].bidId = w
                  /\ bookings'[b].buyerId = bids'[w].userId
                  /\ bookings'[b].sellerId = vehicles'[vid].sellerId
                  /\ bookings'[b].finalPrice = bids'[w].amount]_vars

\* C12: the status of a bid that is accepted or rejected never changes again.
C12_BidStatusTerminal ==
  [][\A i \in DOMAIN bids :
       bids[i].status # "pending" => bids'[i].status = bids[i].status]_vars

\* the handler activation r has set the vehicle's status to sold and saved it
HasSoldVehicle(r) == r.kind = "confirmBooking" /\ r.vehicle.status = "sold"

\* C13: a vehicle's status only ever changes from available to sold; the
\* confirmBooking that sold it answers 201; and a confirmBooking that arrives
\* once it is sold is answered 400 "Vehicle already booked" and changes no
\* record.
C13_VehicleAvailableThenSold ==
  /\ [][\A vid \in DOMAIN vehicles :
          vehicles'[vid].status # vehicles[vid].status
          => /\ vehicles[vid].status = "available"
             /\ vehicles'[vid].status = "sold"]_vars
  /\ [][\A r \in Serving :
          (HasSoldVehicle(r) /\ Stepped(r)) => res'.status \in {0, 201}]_vars
  /\ [][\A vid \in DOMAIN vehicles, uid \in Users :
          (ConfirmBookingFindVehicle(vid, uid) /\ IsSold(vid))
          => /\ res'.status = 400
             /\ res'.message = "Vehicle already booked"
             /\ UNCHANGED <<db, reqs>>]_vars

\* the failure of the first of the preconditions 1-4 of placeBid that does
\* not hold in the store, "" if all four hold
FirstFailedPrecondition(vid, uid, amt) ==
  IF vid \notin DOMAIN vehicles THEN "Vehicle not found"
  ELSE IF vehicles[vid].status # "available"
    THEN "Vehicle is no longer available"
  ELSE IF uid = vehicles[vid].sellerId
    THEN "You cannot bid on your own vehicle"
  ELSE IF amt <= vehicles[vid].price
    THEN "Bid must be higher than current price"
  ELSE ""

\* C14: a placeBid that names a vehicle reports the failure of the first of
\* vehicle exists, vehicle available, bidder is not the seller, amount > price
\* that does not hold, and goes on to the comparison with the highest pending
\* bid only if all four hold; there it fails exactly if the amount is not
\* above the highest pending bid.
C14_FirstFailedPreconditionReported ==
  /\ [][\A vid \in VehicleIdInputs \ {0}, uid \in Users, amt \in AmountInputs :
          PlaceBidFindVehicle(vid, uid, amt)
          => res'.message = FirstFailedPrecondition(vid, uid, amt)]_vars
  /\ [][\A r \in Serving :
          (/\ r.kind = "placeBid" /\ r.pc = "findHighest" /\ Stepped(r)
           /\ res'.status # 500)
          => ((res'.message = "Bid must be higher than current highest bid")
              <=> \E i \in BidsIn(bids, r.vehicleId, "pending") :
                    r.amount <= bids[i].amount)]_vars

\* C15: no two pending bids of the same vehicle have equal amounts.
C15_NoTiedPendingBids ==
  \A vid \in DOMAIN vehicles :
    \A i, j \in BidsIn(bids, vid, "pending") :
      i # j => bids[i].amount # bids[j].amount

\* the handler activation r has completed a write to the store
HasWritten(r) ==
  r.kind = "confirmBooking" /\ r.pc \in {"saveVehicle", "saveBid", "updateMany"}

\* C16: a placeBid or confirmBooking that answers with a failure has written
\* nothing: not in the step that answers and not in an earlier step.
C16_FailureLeavesNoPartialState ==
  [][\A r \in Serving :
       (Stepped(r) /\ res'.status >= 400)
       => UNCHANGED db /\ ~HasWritten(r)]_vars

\* C20: a request to place a bid or to confirm a booking whose token is
\* missing, invalid or expired is answered 401 and its handler does not run.
C20_UnauthenticatedIs401 ==
  [][\A kind \in {"placeBid", "confirmBooking"}, tok \in BearerInputs \ {"valid"} :
       AuthenticateTokenRejects(kind, tok)
       => res'.status = 401 /\ UNCHANGED <<db, reqs>>]_vars

\* what forgot-password answers when no account has the email
NoAccountResponse ==
  ResetResponse("forgotPassword", 200, GenericAcknowledgement, 0)

\* C17: forgot-password answers an email that has an account exactly as it
\* answers one that has none: same status, same body (answers 500, which
\* either run can get from a failing data store, left aside).
C17_SameAnswerWhetherAccountExists ==
  [][\A r \in Serving :
       (/\ r.kind = "forgotPassword" /\ Stepped(r)
        /\ res' # NoResponse /\ res'.status # 500)
       => res' = NoAccountResponse]_vars

\* C18: a reset token is single use: no password is saved under a token that
\* a password was saved under before, and when reset-password answers 200 the
\* token's record is gone, so that every later use of the token finds nothing.
C18_ResetTokenSingleUse ==
  /\ [][\A r \in Serving :
          (r.kind = "resetPassword" /\ r.pc = "saveUser" /\ Stepped(r)
           /\ pwChanges' # pwChanges)
          => CopiesIn(r.token, pwChanges) = 0]_vars
  /\ [][\A r \in Serving :
          (r.kind = "resetPassword" /\ Stepped(r) /\ res'.status = 200)
          => ~TokenFound(r.user, r.token)']_vars

\* C19: at most one ResetToken record exists per user.
C19_OneResetTokenPerUser ==
  \A u \in Users : Cardinality({d \in resetTokens : d.userId = u}) <= 1

\* C21: placeBid by the seller of an available vehicle is answered 403 whatever
\* the amount, and confirmBooking on an available vehicle by a user who is not
\* its seller is answered 403.
C21_AuthorizationViolationIs403 ==
  /\ [][\A vid \in DOMAIN vehicles, uid \in Users, amt \in AmountInputs :
          (/\ PlaceBidFindVehicle(vid, uid, amt)
           /\ vehicles[vid].status = "available"
           /\ vehicles[vid].sellerId = uid)
          => res'.status = 403]_vars
  /\ [][\A vid \in DOMAIN vehicles, uid \in Users :
          (/\ ConfirmBookingFindVehicle(vid, uid)
           /\ vehicles[vid].status = "available"
           /\ vehicles[vid].sellerId # uid)
          => res'.status = 403]_vars

\* the handler activation r2 has just chosen its winner: it is new at the
\* await of booking.save()
ChoseWinner(r2) ==
  /\ r2.kind = "confirmBooking" /\ r2.pc = "saveBooking"
  /\ CopiesIn(r2, reqs') > CopiesIn(r2, reqs)

\* C24: among the pending bids of the vehicle that share the maximum amount,
\* confirmBooking picks the one created first.
C24_EarliestOfTiedBidsWins ==
  [][\A r2 \in BagToSet(reqs') :
       ChoseWinner(r2)
       => \A i \in BidsIn(bids, r2.vehicleId, "pending") :
            bids[i].amount = r2.highestBid.amount => r2.highestBid.id <= i]_vars

\* C27: every Booking refers to an accepted bid of its vehicle, its finalPrice
\* is that bid's amount and is above the vehicle's price, and its buyer is not
\* its seller.
C27_BookingMatchesAcceptedBid ==
  \A b \in DOMAIN bookings :
    LET bk == bookings[b]
    IN /\ bk.bidId \in DOMAIN bids
       /\ bids[bk.bidId].vehicleId = bk.vehicleId
       /\ bids[bk.bidId].status = "accepted"
       /\ bk.finalPrice = bids[bk.bidId].amount
       /\ bk.finalPrice > vehicles[bk.vehicleId].price
       /\ bk.buyerId # bk.sellerId

\* C29: a reset-password that answers with an error has changed nothing: not
\* the password, not the ResetToken records, in no step of it.
C29_FailedResetChangesNothing ==
  [][\A r \in Serving :
       (r.kind = "resetPassword" /\ Stepped(r) /\ res'.status >= 400)
       => /\ r.pc \in {"findToken", "saveUser"}
          /\ UNCHANGED <<passwords, resetTokens>>]_vars

\* The bid list next to every step that reads or writes the store.  Requests
\* that end in authenticateToken or at a rejected Vehicle.findById touch no
\* bid and are left to Spec.
BidListNext ==
  \/ \E uid \in Users, price \in PriceInputs : PostVehicle(uid, price)
  \/ \E vid \in VehicleIdInputs, uid \in Users, amt \in AmountInputs :
       PlaceBidFindVehicle(vid, uid, amt)
  \/ \E r \in Serving : PlaceBidFindHighest(r)
  \/ \E r \in Serving : PlaceBidSave(r)
  \/ \E vid \in VehicleIdInputs, uid \in Users : ConfirmBookingFindVehicle(vid, uid)
  \/ \E r \in Serving : ConfirmBookingFindHighest(r)
  \/ \E r \in Serving : ConfirmBookingSaveBooking(r)
  \/ \E r \in Serving : ConfirmBookingSaveVehicle(r)
  \/ \E r \in Serving : ConfirmBookingSaveBid(r)
  \/ \E r \in Serving : ConfirmBookingUpdateMany(r)
  \/ \E r \in Serving : DbFailure(r)
  \/ \E vid \in VehicleIdInputs \ {0} : ListBids(vid)
  \/ \E vid \in VehicleIdInputs \ {0} : ListBidsFailure(vid)
  \/ ResponseSent

\* one document or request fewer than in Spec: each state of the store is
\* followed by the answers of listBids, which multiplies the states
InitBidList == InitStore /\ capacity = MaxDocs - 1

BidListSpec == InitBidList /\ [][BidListNext]_vars

MaxEmails == 3
\* register requests being served at once
MaxRegs == 2

\* 0 stands for a missing email; the others are distinct email strings
RegisterEmailInputs == 0..MaxEmails
\* password.length: 0 for a missing (or empty) password
PasswordLengthInputs == {0, 7, 8}

RegisterReq(email) == [kind |-> "register", email |-> email, pc |-> "save"]

RegisterResponse(st, msg) == [kind |-> "register", status |-> st, message |-> msg]

\* User.findOne({ email }) finds a document
EmailRegistered(email) == \E i \in DOMAIN userEmails : userEmails[i] = email

\* a plausible slip: the schema without unique: true on email
DuplicateKey_NoUniqueIndex(email) == FALSE

\* the unique index on email refuses the insert (E11000)
DuplicateKey(email) == \E i \in DOMAIN userEmails : userEmails[i] = email

\* The request arrives and runs up to the result of User.findOne.
RegisterFindUser(email, len, nameAndPhone) ==
  /\ Ready
  /\ BagCardinality(reqs) < MaxRegs
  /\ IF ~nameAndPhone \/ email = 0 \/ len = 0
       THEN /\ res' = RegisterResponse(400, "All fields are required")
            /\ reqs' = reqs
     ELSE IF len < 8
       THEN /\ res' = RegisterResponse(400, "Password must be at least 8 characters")
            /\ reqs' = reqs
     ELSE IF EmailRegistered(email)
       THEN /\ res' = RegisterResponse(400, "Email already registered")
            /\ reqs' = reqs
     ELSE Start(RegisterReq(email))
  /\ UNCHANGED <<userEmails, catalog, client, variants>>
  /\ UNCHANGED <<bidding, accounts, emitted>>

\* bcrypt.hash touches no shared state, so it is one step with user.save().
\* A save the unique index refuses throws, and the catch answers 500.
RegisterSave(r) ==
  /\ Ready
  /\ r.kind = "register" /\ r.pc = "save"
  /\ reqs' = reqs (-) SetToBag({r})
  /\ IF DuplicateKey(r.email)
       THEN /\ res' = RegisterResponse(500, "Server error")
            /\ UNCHANGED userEmails
       ELSE /\ userEmails' = Append(userEmails, r.email)
            /\ res' = RegisterResponse(201, "Registration successful")
  /\ UNCHANGED <<catalog, client, variants>>
  /\ UNCHANGED <<bidding, accounts, emitted>>

\* User.findOne rejects
RegisterFindUserFailure ==
  /\ Ready
  /\ BagCardinality(reqs) < MaxRegs
  /\ res' = RegisterResponse(500, "Server error")
  /\ UNCHANGED <<reqs, userEmails, catalog, client, variants>>
  /\ UNCHANGED <<bidding, accounts, emitted>>

\* bcrypt.hash or user.save() rejects for a reason other than the index
RegisterSaveFailure(r) ==
  /\ Ready
  /\ r.kind = "register" /\ r.pc = "save"
  /\ reqs' = reqs (-) SetToBag({r})
  /\ res' = RegisterResponse(500, "Server error")
  /\ UNCHANGED <<userEmails, catalog, client, variants>>
  /\ UNCHANGED <<bidding, accounts, emitted>>

RegisterNext ==
  \/ \E email \in RegisterEmailInputs, len \in PasswordLengthInputs,
        nameAndPhone \in BOOLEAN : RegisterFindUser(email, len, nameAndPhone)
  \/ \E r \in Serving : RegisterSave(r)
  \/ RegisterFindUserFailure
  \/ \E r \in Serving : RegisterSaveFailure(r)
  \/ ResponseSent

RegisterSpec == Init /\ [][RegisterNext]_vars

\* C25: a register whose password is shorter than 8 characters is answered
\* 400 "Password must be at least 8 characters", one whose email a stored user
\* has is answered 400 "Email already registered", neither stores anything;
\* and no step, of concurrent registers with one email included, leaves two
\* User documents with the same email.
C25_RegisterRejectsAndEmailsUnique ==
  /\ [][\A email \in RegisterEmailInputs \ {0}, len \in PasswordLengthInputs \ {0} :
          RegisterFindUser(email, len, TRUE)
          => /\ len < 8 =>
                  /\ res'.status = 400
                  /\ res'.message = "Password must be at least 8 characters"
             /\ (len >= 8 /\ \E i \in DOMAIN userEmails : userEmails[i] = email) =>
                  /\ res'.status = 400
                  /\ res'.message = "Email already registered"]_vars
  /\ [][(res'.kind = "register" /\ res'.status = 400) => UNCHANGED userEmails]_vars
  /\ [][\A i, j \in DOMAIN userEmails' :
          userEmails'[i] = userEmails'[j] => i = j]_vars

\* C25: a register has just been refused for its email while another one
\* with an email that was stored after its own findOne is still to save
C25_Witness ==
  /\ res.kind = "register" /\ res.message = "Email already registered"
  /\ \E r \in Serving :
       r.kind = "register" /\ \E i \in DOMAIN userEmails : userEmails[i] = r.email

\* ==== GET /api/vehicles ======================================================
\* Vehicle documents stored
MaxCatalog == 2

\* A string is a sequence of characters; 1 and 2 are the letters a and t,
\* 3 and 4 their capitals A and T.
ToLowerCase(c) == IF c > 2 THEN c - 2 ELSE c

\* new RegExp(pattern, 'i').test(text) for a pattern of letters: the pattern
\* occurs in the text, case ignored
RegExpTest(pattern, text) ==
  \E off \in 0..Len(text) :
    /\ off + Len(pattern) <= Len(text)
    /\ \A k \in DOMAIN pattern :
         ToLowerCase(pattern[k]) = ToLowerCase(text[off + k])

\* a query parameter that the URL does not carry (undefined); a string
\* parameter that is absent or empty is ""
Absent == -1

\* the fields of a posted vehicle that the listing filters on:
\* the brands "Ta" and "tt", two types, two prices, two years
ListedVehicleInputs ==
  {[brand |-> <<4, 1>>, type |-> "car",  price |-> 1, year |-> 1],
   [brand |-> <<4, 1>>, type |-> "bike", price |-> 2, year |-> 2],
   [brand |-> <<2, 2>>, type |-> "car",  price |-> 2, year |-> 1],
   [brand |-> <<2, 2>>, type |-> "bike", price |-> 1, year |-> 2]}

\* req.query: brand "" or "A"
QueryInputs ==
  [brand : {<<>>, <<3>>}, type : {"", "car"},
   minPrice : {Absent, 1, 2}, maxPrice : {Absent, 1},
   minYear : {Absent, 2}, maxYear : {Absent, 1},
   status : {"", "available", "sold"}]

\* createdAt: { default: Date.now } of the latest document; a vehicle posted
\* in the same millisecond gets the same value
LastCreatedAt == IF catalog = <<>> THEN 0 ELSE catalog[Len(catalog)].createdAt

\* a plausible slip: the else branch of the status filter left out
StatusFilter_NoDefault(query) == query.status

\* if (status) filter.status = status; else filter.status = 'available'
StatusFilter(query) == IF query.status # "" THEN query.status ELSE "available"

\* let filter = {}; if (brand) ...: a field that is not set is "" or Absent
VehicleFilter(query) ==
  [brand |-> query.brand, type |-> query.type,
   priceGte |-> query.minPrice, priceLte |-> query.maxPrice,
   yearGte |-> query.minYear, yearLte |-> query.maxYear,
   status |-> StatusFilter(query)]

\* the document d is one that Vehicle.find(filter) returns
MatchesFilter(d, filter) ==
  /\ filter.brand # <<>> => RegExpTest(filter.brand, d.brand)
  /\ filter.type # "" => d.type = filter.type
  /\ filter.priceGte # Absent => d.price >= filter.priceGte
  /\ filter.priceLte # Absent => d.price <= filter.priceLte
  /\ filter.yearGte # Absent => d.year >= filter.yearGte
  /\ filter.yearLte # Absent => d.year <= filter.yearLte
  /\ filter.status # "" => d.status = filter.status

\* .sort({ createdAt: -1 }) of the documents S: the _ids in an order the
\* sort can return them in
SortedByCreatedAt(S) ==
  {q \in [1..Cardinality(S) -> S] :
     /\ \A k, l \in DOMAIN q : k # l => q[k] # q[l]
     /\ \A k, l \in DOMAIN q :
          k < l => catalog[q[k]].createdAt >= catalog[q[l]].createdAt}

\* res.json(vehicles)
VehiclesResponse(query, q) ==
  [kind |-> "listVehicles", status |-> 200, message |-> "",
   query |-> query, vehicles |-> q]

\* POST /api/vehicles, seen from the listing: vehicle.save() and the answer
PostListedVehicle(v, createdAt) ==
  /\ Ready
  /\ Len(catalog) < MaxCatalog
  /\ createdAt \in {LastCreatedAt, LastCreatedAt + 1} \ {0}
  /\ catalog' = Append(catalog,
       [brand |-> v.brand, type |-> v.type, price |-> v.price, year |-> v.year,
        status |-> "available", createdAt |-> createdAt])
  /\ emitted' = NewVehicleEvent(Len(catalog) + 1)
  /\ res' = [kind |-> "postVehicle", status |-> 201,
             message |-> "Vehicle posted successfully"]
  /\ UNCHANGED <<reqs, userEmails, client, variants>>
  /\ UNCHANGED <<bidding, accounts>>

\* POST /api/bookings, seen from the listing: vehicle.status = 'sold' saved
SellListedVehicle(i) ==
  /\ Ready
  /\ i \in DOMAIN catalog
  /\ catalog[i].status = "available"
  /\ catalog' = [catalog EXCEPT ![i].status = "sold"]
  /\ UNCHANGED <<reqs, res, userEmails, client, variants>>
  /\ UNCHANGED <<bidding, accounts, emitted>>

\* The handler has one await, the find, and needs no token.
ListVehicles(query) ==
  /\ Ready
  /\ \E q \in SortedByCreatedAt({i \in DOMAIN catalog :
                                  MatchesFilter(catalog[i], VehicleFilter(query))}) :
       res' = VehiclesResponse(query, q)
  /\ UNCHANGED <<reqs, userEmails, catalog, client, variants>>
  /\ UNCHANGED <<bidding, accounts, emitted>>

\* the find rejects: catch (error) { res.status(500) }
ListVehiclesFailure ==
  /\ Ready
  /\ res' = [kind |-> "listVehicles", status |-> 500, message |-> "Server error"]
  /\ UNCHANGED <<reqs, userEmails, catalog, client, variants>>
  /\ UNCHANGED <<bidding, accounts, emitted>>

ListNext ==
  \/ \E v \in ListedVehicleInputs, createdAt \in 1..MaxCatalog :
       PostListedVehicle(v, createdAt)
  \/ \E i \in DOMAIN catalog : SellListedVehicle(i)
  \/ \E query \in QueryInputs : ListVehicles(query)
  \/ ListVehiclesFailure
  \/ ResponseSent

ListSpec == Init /\ [][ListNext]_vars

\* the vehicle d has the brand, type, price, year and status that the query
\* asks for, a query without status asking for available vehicles
Wanted(d, query) ==
  /\ query.brand = <<>> \/
       \E off \in 0..(Len(d.brand) - Len(query.brand)) :
         \A k \in 1..Len(query.brand) :
           ToLowerCase(d.brand[off + k]) = ToLowerCase(query.brand[k])
  /\ query.type \in {"", d.type}
  /\ query.minPrice = Absent \/ query.minPrice <= d.price
  /\ query.maxPrice = Absent \/ d.price <= query.maxPrice
  /\ query.minYear = Absent \/ query.minYear <= d.year
  /\ query.maxYear = Absent \/ d.year <= query.maxYear
  /\ d.status = (IF query.status = "" THEN "available" ELSE query.status)

\* C26: List vehicles answers the vehicles that match every filter of the
\* query, each once, newest first; without a status in the query it answers
\* available vehicles only, so none that confirmBooking has set to sold.
C26_ListVehiclesFiltersNewestFirst ==
  [][(res'.kind = "listVehicles" /\ res'.status = 200)
     => LET q == res'.vehicles
        IN /\ {q[k] : k \in DOMAIN q}
                = {i \in DOMAIN catalog : Wanted(catalog[i], res'.query)}
           /\ \A k, l \in DOMAIN q : k # l => q[k] # q[l]
           /\ \A k, l \in DOMAIN q :
                k < l => catalog[q[k]].createdAt >= catalog[q[l]].createdAt
           /\ res'.query.status = "" =>
                \A k \in DOMAIN q : catalog[q[k]].status # "sold"
           /\ UNCHANGED catalog]_vars

\* C26: a listing without status has answered one car and left out a car
\* that is sold
C26_Witness ==
  /\ res.kind = "listVehicles" /\ res.status = 200
  /\ res.query.status = "" /\ res.query.type = "car"
  /\ Len(res.vehicles) = 1
  /\ \E i \in DOMAIN catalog :
       catalog[i].status = "sold" /\ catalog[i].type = "car"

\* ==== the browser script: the vehicle modal ===================================
\* vehicle cards on the page
NumCards == 2
\* fetch calls awaiting their response at once
MaxFetches == 3

CardIds == 1..NumCards

\* an awaited fetch of the script, by the function that awaits it
Fetch(kind, vid) == [kind |-> kind, vehicleId |-> vid]

CanFetch == BagCardinality(fetches) < MaxFetches

\* what the server answers a fetch of the vehicle with; "error" is a fetch
\* that rejects
DetailsOutcomes == {"available", "sold", "error"}

\* showVehicleDetails(vehicleId) up to its await; the cards lie under the
\* modal, so one is clicked while the modal is not displayed
ShowVehicleDetails(vid) ==
  /\ ~modal.shown
  /\ CanFetch
  /\ currentVehicleId' = vid
  /\ fetches' = fetches (+) SetToBag({Fetch("details", vid)})
  /\ UNCHANGED <<modal, bidListOf>>
  /\ UNCHANGED <<db, reqs, res, capacity, accounts, emitted, userEmails, catalog, variants>>

\* showVehicleDetails after its await: #modalContent is rewritten, with a
\* #bidList holding the spinner if the vehicle is available, the modal is
\* displayed, and loadVehicleBids is called for an available vehicle
ShowVehicleDetailsRenders(f, outcome) ==
  /\ f \in BagToSet(fetches) /\ f.kind = "details"
  /\ IF outcome = "error"
       THEN /\ fetches' = fetches (-) SetToBag({f})
            /\ UNCHANGED <<modal, bidListOf>>
       ELSE /\ modal' = [shown |-> TRUE, vehicleId |-> f.vehicleId,
                         hasBidList |-> (outcome = "available")]
            /\ bidListOf' = 0
            /\ fetches' = IF outcome = "available"
                            THEN (fetches (-) SetToBag({f}))
                                   (+) SetToBag({Fetch("bids", f.vehicleId)})
                            ELSE fetches (-) SetToBag({f})
  /\ UNCHANGED currentVehicleId
  /\ UNCHANGED <<db, reqs, res, capacity, accounts, emitted, userEmails, catalog, variants>>

\* loadVehicleBids after its await: the bids are written into #bidList; there
\* is no #bidList in the content of a sold vehicle, and the write throws
LoadVehicleBidsRenders(f) ==
  /\ f \in BagToSet(fetches) /\ f.kind = "bids"
  /\ fetches' = fetches (-) SetToBag({f})
  /\ bidListOf' = IF modal.hasBidList THEN f.vehicleId ELSE bidListOf
  /\ UNCHANGED <<currentVehicleId, modal>>
  /\ UNCHANGED <<db, reqs, res, capacity, accounts, emitted, userEmails, catalog, variants>>

\* the fetch of loadVehicleBids rejects: catch (error) { console.error }
LoadVehicleBidsFails(f) ==
  /\ f \in BagToSet(fetches) /\ f.kind = "bids"
  /\ fetches' = fetches (-) SetToBag({f})
  /\ UNCHANGED <<currentVehicleId, modal, bidListOf>>
  /\ UNCHANGED <<db, reqs, res, capacity, accounts, emitted, userEmails, catalog, variants>>

\* socket.on('newBid'): the handler does nothing for another vehicle
NewBidReceived(vid) ==
  /\ currentVehicleId = vid
  /\ CanFetch
  /\ fetches' = fetches (+) SetToBag({Fetch("bids", vid)})
  /\ UNCHANGED <<currentVehicleId, modal, bidListOf>>
  /\ UNCHANGED <<db, reqs, res, capacity, accounts, emitted, userEmails, catalog, variants>>

\* placeBid(e, vehicleId) up to its await: the bid form is part of the
\* content of an available vehicle and carries that vehicle's id
SubmitBid ==
  /\ modal.shown /\ modal.hasBidList
  /\ CanFetch
  /\ fetches' = fetches (+) SetToBag({Fetch("placeBid", modal.vehicleId)})
  /\ UNCHANGED <<currentVehicleId, modal, bidListOf>>
  /\ UNCHANGED <<db, reqs, res, capacity, accounts, emitted, userEmails, catalog, variants>>

\* placeBid after its await: if (response.ok) loadVehicleBids(vehicleId)
SubmitBidAnswered(f, ok) ==
  /\ f \in BagToSet(fetches) /\ f.kind = "placeBid"
  /\ fetches' = IF ok
                  THEN (fetches (-) SetToBag({f}))
                         (+) SetToBag({Fetch("bids", f.vehicleId)})
                  ELSE fetches (-) SetToBag({f})
  /\ UNCHANGED <<currentVehicleId, modal, bidListOf>>
  /\ UNCHANGED <<db, reqs, res, capacity, accounts, emitted, userEmails, catalog, variants>>

\* closeModal()
CloseModal ==
  /\ modal.shown
  /\ modal' = [modal EXCEPT !.shown = FALSE]
  /\ currentVehicleId' = 0
  /\ UNCHANGED <<bidListOf, fetches>>
  /\ UNCHANGED <<db, reqs, res, capacity, accounts, emitted, userEmails, catalog, variants>>

ClientNext ==
  \/ \E vid \in CardIds : ShowVehicleDetails(vid)
  \/ \E f \in BagToSet(fetches), outcome \in DetailsOutcomes :
       ShowVehicleDetailsRenders(f, outcome)
  \/ \E f \in BagToSet(fetches) : LoadVehicleBidsRenders(f)
  \/ \E f \in BagToSet(fetches) : LoadVehicleBidsFails(f)
  \/ \E vid \in CardIds : NewBidReceived(vid)
  \/ SubmitBid
  \/ \E f \in BagToSet(fetches), ok \in BOOLEAN : SubmitBidAnswered(f, ok)
  \/ CloseModal

ClientSpec == Init /\ [][ClientNext]_vars

\* C28: while the modal is displayed, the bids that #bidList holds are those
\* of the vehicle that currentVehicleId names.
C28_BidListOfCurrentVehicle ==
  (modal.shown /\ bidListOf # 0) => bidListOf = currentVehicleId

\* ==== the two backends, request by request ===================================
\* Each run is a store (vehicles, bids, bookings) with the answer to the
\* latest request: its route, its HTTP status, the bids a listBids answered
\* and the event emitted.  Both runs receive every request, one at a time.

\* the run s after a request that changed nothing was answered st
Answered(s, kind, st) ==
  [s EXCEPT !.kind = kind, !.status = st, !.listed = <<>>, !.event = NoEvent]

\* Vehicle.findById(vehicleId) on the store of s
VehicleOf(s, vid) ==
  IF vid \in DOMAIN s.vehicles
    THEN [id |-> vid, sellerId |-> s.vehicles[vid].sellerId,
          price |-> s.vehicles[vid].price, status |-> s.vehicles[vid].status]
    ELSE NoDoc

\* the filter { vehicleId, status: 'pending' } on the store of s
PendingOf(s, vid) ==
  {i \in DOMAIN s.bids :
     s.bids[i].vehicleId = vid /\ s.bids[i].status = "pending"}

\* Bid.findOne({ vehicleId, status: 'pending' }).sort({ amount: -1 }) on the
\* store of s: the documents the query can return, NoDoc for null
HighestOf(s, vid) ==
  IF PendingOf(s, vid) = {}
    THEN {NoDoc}
    ELSE {[id |-> i, userId |-> s.bids[i].userId, amount |-> s.bids[i].amount] :
            i \in {j \in PendingOf(s, vid) :
                     \A k \in PendingOf(s, vid) :
                       s.bids[k].amount <= s.bids[j].amount}}

\* Bid.find({ vehicleId, status: 'pending' }).sort({ amount: -1 }) on the
\* store of s
ListedOf(s, vid) ==
  {q \in [1..Cardinality(PendingOf(s, vid)) -> PendingOf(s, vid)] :
     /\ \A k, l \in DOMAIN q : k # l => q[k] # q[l]
     /\ \A k, l \in DOMAIN q :
          k < l => s.bids[q[k]].amount >= s.bids[q[l]].amount}

\* the writes of POST /api/bookings, which both backends make in this order
Booked(s, vid, v, hb) ==
  [s EXCEPT !.bookings = Append(@, NewBooking(vid, v, hb)),
            !.vehicles[vid].status = "sold",
            !.bids = RejectOthers([@ EXCEPT ![hb.id].status = "accepted"],
                                  vid, hb.id)]

\* ---- the socket server ------------------------------------------------------
ServerPostVehicle(s, uid, price) ==
  IF price = 0 THEN Answered(s, "postVehicle", 400)
  ELSE [s EXCEPT !.vehicles = Append(@, [sellerId |-> uid, price |-> price,
                                         status |-> "available"]),
                 !.kind = "postVehicle", !.status = 201, !.listed = <<>>,
                 !.event = NewVehicleEvent(Len(s.vehicles) + 1)]

\* dbUp: the data store answers this request's operations; hb: the result of
\* the findOne
ServerPlaceBid(s, tok, vid, uid, amt, dbUp, hb) ==
  LET v == VehicleOf(s, vid)
  IN IF tok = "missing" THEN Answered(s, "placeBid", 401)
     ELSE IF JwtVerifyFails(tok) THEN Answered(s, "placeBid", 403)
     ELSE IF FieldsMissing(vid, amt) THEN Answered(s, "placeBid", 400)
     ELSE IF ~dbUp THEN Answered(s, "placeBid", 500)
     ELSE IF v.id = 0 THEN Answered(s, "placeBid", 404)
     ELSE IF VehicleNotAvailable(v) THEN Answered(s, "placeBid", 400)
     ELSE IF IsOwnVehicle(v, uid) THEN Answered(s, "placeBid", 400)
     ELSE IF NotAbovePrice(amt, v) THEN Answered(s, "placeBid", 400)
     ELSE IF NotAboveHighest(amt, hb) THEN Answered(s, "placeBid", 400)
     ELSE [s EXCEPT !.bids = Append(@, NewBid(vid, uid, amt)),
                    !.kind = "placeBid", !.status = 201, !.listed = <<>>,
                    !.event = NewBidEvent([vehicleId |-> vid, amount |-> amt])]

ServerListBids(s, vid, dbUp, q) ==
  IF ~dbUp THEN Answered(s, "listBids", 500)
  ELSE [s EXCEPT !.kind = "listBids", !.status = 200, !.listed = q,
                 !.event = NoEvent]

ServerConfirmBooking(s, tok, vid, uid, dbUp, hb) ==
  LET v == VehicleOf(s, vid)
  IN IF tok = "missing" THEN Answered(s, "confirmBooking", 401)
     ELSE IF JwtVerifyFails(tok) THEN Answered(s, "confirmBooking", 403)
     ELSE IF ~dbUp THEN Answered(s, "confirmBooking", 500)
     ELSE IF v.id = 0 THEN Answered(s, "confirmBooking", 404)
     ELSE IF VehicleNotAvailable(v) THEN Answered(s, "confirmBooking", 400)
     ELSE IF NotSeller(v, uid) THEN Answered(s, "confirmBooking", 403)
     ELSE IF NoHighestBid(hb) THEN Answered(s, "confirmBooking", 400)
     ELSE [Booked(s, vid, v, hb) EXCEPT
             !.kind = "confirmBooking", !.status = 201, !.listed = <<>>,
             !.event = BookingConfirmedEvent(
                         [vehicleId |-> vid, bookingId |-> Len(s.bookings) + 1])]

\* ---- the serverless API -----------------------------------------------------
\* Every handler starts with await connectToDatabase() inside its try, and
\* none calls io.emit.
ServerlessPostVehicle(s, uid, price) ==
  IF price = 0 THEN Answered(s, "postVehicle", 400)
  ELSE [s EXCEPT !.vehicles = Append(@, [sellerId |-> uid, price |-> price,
                                         status |-> "available"]),
                 !.kind = "postVehicle", !.status = 201, !.listed = <<>>,
                 !.event = NoEvent]

ServerlessPlaceBid(s, tok, vid, uid, amt, dbUp, hb) ==
  LET vehicle == VehicleOf(s, vid)
  IN IF tok = "missing" THEN Answered(s, "placeBid", 401)
     ELSE IF tok # "valid" THEN Answered(s, "placeBid", 403)
     ELSE IF ~dbUp THEN Answered(s, "placeBid", 500)
     ELSE IF vid = 0 \/ amt = 0 THEN Answered(s, "placeBid", 400)
     ELSE IF vehicle.id = 0 THEN Answered(s, "placeBid", 404)
     ELSE IF vehicle.status # "available" THEN Answered(s, "placeBid", 400)
     ELSE IF vehicle.sellerId = uid THEN Answered(s, "placeBid", 400)
     ELSE IF amt <= vehicle.price THEN Answered(s, "placeBid", 400)
     ELSE IF hb.id # 0 /\ amt <= hb.amount THEN Answered(s, "placeBid", 400)
     ELSE [s EXCEPT !.bids = Append(@, [vehicleId |-> vid, userId |-> uid,
                                        amount |-> amt, status |-> "pending"]),
                    !.kind = "placeBid", !.status = 201, !.listed = <<>>,
                    !.event = NoEvent]

ServerlessListBids(s, vid, dbUp, q) ==
  IF ~dbUp THEN Answered(s, "listBids", 500)
  ELSE [s EXCEPT !.kind = "listBids", !.status = 200, !.listed = q,
                 !.event = NoEvent]

ServerlessConfirmBooking(s, tok, vid, uid, dbUp, hb) ==
  LET vehicle == VehicleOf(s, vid)
  IN IF tok = "missing" THEN Answered(s, "confirmBooking", 401)
     ELSE IF tok # "valid" THEN Answered(s, "confirmBooking", 403)
     ELSE IF ~dbUp THEN Answered(s, "confirmBooking", 500)
     ELSE IF vehicle.id = 0 THEN Answered(s, "confirmBooking", 404)
     ELSE IF vehicle.status # "available" THEN Answered(s, "confirmBooking", 400)
     ELSE IF vehicle.sellerId # uid THEN Answered(s, "confirmBooking", 403)
     ELSE IF hb.id = 0 THEN Answered(s, "confirmBooking", 400)
     ELSE [Booked(s, vid, vehicle, hb) EXCEPT
             !.kind = "confirmBooking", !.status = 201, !.listed = <<>>,
             !.event = NoEvent]

\* ---- one request, sent to both ------------------------------------------------
VariantFrame ==
  /\ UNCHANGED <<db, reqs, res, capacity, accounts, emitted>>
  /\ UNCHANGED <<userEmails, catalog, client>>

BothPostVehicle(uid, price) ==
  /\ serverRun.vehicles = <<>>
  /\ serverRun' = ServerPostVehicle(serverRun, uid, price)
  /\ serverlessRun' = ServerlessPostVehicle(serverlessRun, uid, price)
  /\ VariantFrame

BothPlaceBid(tok, vid, uid, amt, dbUp) ==
  /\ \E hb \in HighestOf(serverRun, vid) :
       serverRun' = ServerPlaceBid(serverRun, tok, vid, uid, amt, dbUp, hb)
  /\ \E hb \in HighestOf(serverlessRun, vid) :
       serverlessRun' =
         ServerlessPlaceBid(serverlessRun, tok, vid, uid, amt, dbUp, hb)
  /\ VariantFrame

BothListBids(vid, dbUp) ==
  /\ \E q \in ListedOf(serverRun, vid) :
       serverRun' = ServerListBids(serverRun, vid, dbUp, q)
  /\ \E q \in ListedOf(serverlessRun, vid) :
       serverlessRun' = ServerlessListBids(serverlessRun, vid, dbUp, q)
  /\ VariantFrame

BothConfirmBooking(tok, vid, uid, dbUp) ==
  /\ \E hb \in HighestOf(serverRun, vid) :
       serverRun' = ServerConfirmBooking(serverRun, tok, vid, uid, dbUp, hb)
  /\ \E hb \in HighestOf(serverlessRun, vid) :
       serverlessRun' =
         ServerlessConfirmBooking(serverlessRun, tok, vid, uid, dbUp, hb)
  /\ VariantFrame

VariantNext ==
  \/ \E uid \in Users, price \in PriceInputs : BothPostVehicle(uid, price)
  \/ \E tok \in BearerInputs, vid \in VehicleIdInputs, uid \in Users,
        amt \in AmountInputs, dbUp \in BOOLEAN :
       BothPlaceBid(tok, vid, uid, amt, dbUp)
  \/ \E vid \in VehicleIdInputs \ {0}, dbUp \in BOOLEAN : BothListBids(vid, dbUp)
  \/ \E tok \in BearerInputs, vid \in VehicleIdInputs, uid \in Users,
        dbUp \in BOOLEAN :
       BothConfirmBooking(tok, vid, uid, dbUp)

VariantSpec == Init /\ [][VariantNext]_vars

\* C30: after every request the serverless API and the socket server have
\* answered the same HTTP status (and, for listBids, the same bids) and hold
\* the same vehicles, bids and bookings.
C30_VariantsAgree ==
  /\ serverlessRun.status = serverRun.status
  /\ serverlessRun.listed = serverRun.listed
  /\ serverlessRun.vehicles = serverRun.vehicles
  /\ serverlessRun.bids = serverRun.bids
  /\ serverlessRun.bookings = serverRun.bookings

\* C22: a backend that has answered a listing creation, a placeBid or a
\* confirmBooking with 201 has emitted the one event of that operation, with
\* the ids of documents its store holds; a backend that has answered anything
\* else has emitted none.
C22_SuccessEmitsOneEvent ==
  \A s \in {serverRun, serverlessRun} :
    /\ (s.kind = "postVehicle" /\ s.status = 201) =>
         /\ s.event.event = "newVehicle"
         /\ s.event.vehicleId = Len(s.vehicles)
    /\ (s.kind = "placeBid" /\ s.status = 201) =>
         /\ s.event.event = "newBid"
         /\ s.event.vehicleId = s.bids[Len(s.bids)].vehicleId
         /\ s.event.amount = s.bids[Len(s.bids)].amount
    /\ (s.kind = "confirmBooking" /\ s.status = 201) =>
         /\ s.event.event = "bookingConfirmed"
         /\ s.event.bookingId = Len(s.bookings)
         /\ s.event.vehicleId = s.bookings[Len(s.bookings)].vehicleId
    /\ s.status # 201 => s.event = NoEvent

====
